---- MODULE Spec2Model ----
(***************************************************************************)
(* A model of src/src/sequali/function_dispatch.h (Sequali):               *)
(*   - decode_bam_sequence_default / decode_bam_sequence_ssse3, the scalar *)
(*     and the SSSE3 decoder of BAM 4-bit packed nucleotides;              *)
(*   - decode_bam_sequence_dispatch and the function pointer               *)
(*     decode_bam_sequence it rebinds on first use;                        *)
(*   - NUCLEOTIDE_TO_TWOBIT, reverse_complement_kmer and                   *)
(*     sequence_to_canonical_kmer.                                         *)
(*                                                                         *)
(* Bytes are naturals in 0..255.  A uint64_t is a sequence of 64 bits,     *)
(* most significant bit first (TLC's integers are 32 bits wide, the        *)
(* k-mer code uses all 64).  An int64_t is the same 64 bits read in two's  *)
(* complement.  Pointers into a buffer are offsets from its start.         *)
(***************************************************************************)
EXTENDS Integers, Sequences, FiniteSets

VARIABLES
    \* decode_bam_sequence_default and decode_bam_sequence_ssse3 on one input
    encoded_buf,    \* the packed buffer, (seq_len + 1) / 2 bytes
    seq_len,        \* the decoded length
    dest_default,   \* dest after decode_bam_sequence_default
    dest_ssse3,     \* dest after decode_bam_sequence_ssse3
    vec_iters,      \* iterations of the SSSE3 loop
    tail_len,       \* length handed to decode_bam_sequence_default at line 128
    decode_pc,      \* "off", "input", "default_done", "done"
    \* sequence_to_canonical_kmer on one window
    window,         \* the bytes at sequence[0..k-1]
    klen,           \* k
    past_bytes,     \* the bytes behind NUCLEOTIDE_TO_TWOBIT, by the index read
    kmer_pc,        \* "off", "input", "called", "rc_called"
    kmer_ret,       \* the int64_t returned for window
    kmer_ret_rc,    \* the int64_t returned for the reverse complement of window
    \* the function pointer and the threads calling through it
    decode_bam_sequence,  \* the pointer: "dispatch", "ssse3" or "default"
    cpu_ssse3,      \* __builtin_cpu_supports("ssse3")
    thr_pc,         \* per thread: "off", "idle", "loaded", "bound"
    thr_fp,         \* per thread: the pointer value it loaded for its call
    thr_ran,        \* per thread: the implementation its last call ran
    thr_returned,   \* per thread: calls that have returned
    selector_writes,\* stores to decode_bam_sequence so far
    bound_values    \* the values stored to decode_bam_sequence so far

decode_vars == <<encoded_buf, seq_len, dest_default, dest_ssse3, vec_iters, tail_len, decode_pc>>
kmer_vars == <<window, klen, past_bytes, kmer_pc, kmer_ret, kmer_ret_rc>>
dispatch_vars == <<decode_bam_sequence, cpu_ssse3, thr_pc, thr_fp, thr_ran, thr_returned,
                   selector_writes, bound_values>>
vars == <<decode_vars, kmer_vars, dispatch_vars>>

(***************************************************************************)
(* Bitwise arithmetic on naturals (uint8_t and small size_t values).       *)
(***************************************************************************)
RECURSIVE BitAnd(_, _)
BitAnd(a, b) ==
    IF a = 0 \/ b = 0 THEN 0
    ELSE (a % 2) * (b % 2) + 2 * BitAnd(a \div 2, b \div 2)

RECURSIVE BitOr(_, _)
BitOr(a, b) ==
    IF a = 0 THEN b
    ELSE IF b = 0 THEN a
    ELSE (IF a % 2 = 1 \/ b % 2 = 1 THEN 1 ELSE 0) + 2 * BitOr(a \div 2, b \div 2)

RECURSIVE Pow2Rec(_)
Pow2Rec(n) == IF n = 0 THEN 1 ELSE 2 * Pow2Rec(n - 1)

Pow2Table == [n \in 0..30 |-> Pow2Rec(n)]

Pow2(n) == Pow2Table[n]

(***************************************************************************)
(* uint64_t: 64 bits, w[1] is bit 63 and w[64] is bit 0.                   *)
(***************************************************************************)
WordBits == 1..64

\* The uint64_t holding the natural n (n < 2^31).
U64(n) == [j \in WordBits |-> IF 64 - j < 31 THEN (n \div Pow2(64 - j)) % 2 ELSE 0]

\* The uint64_t written as 16 hexadecimal digits, most significant first.
Hex64(digits) == [j \in WordBits |->
                    (digits[((j - 1) \div 4) + 1] \div Pow2(3 - ((j - 1) % 4))) % 2]

\* x << s and x >> s on uint64_t, 0 <= s < 64.
Shl64(x, s) == [j \in WordBits |-> IF j + s <= 64 THEN x[j + s] ELSE 0]
Shr64(x, s) == [j \in WordBits |-> IF j - s >= 1 THEN x[j - s] ELSE 0]

Or64(x, y) == [j \in WordBits |-> IF x[j] = 1 \/ y[j] = 1 THEN 1 ELSE 0]
And64(x, y) == [j \in WordBits |-> x[j] * y[j]]
Not64(x) == [j \in WordBits |-> 1 - x[j]]

\* x > y as unsigned 64-bit integers.
Gt64(x, y) ==
    \E j \in WordBits : x[j] = 1 /\ y[j] = 0 /\ \A h \in 1..(j - 1) : x[h] = y[h]

\* The int64_t holding the integer n, |n| < 2^31, in two's complement.
I64(n) == IF n >= 0 THEN U64(n) ELSE Not64(U64(-n - 1))

(***************************************************************************)
(* The nucleotide decoders (function_dispatch.h lines 40-129).             *)
(* A buffer is a sequence of bytes; the pointer buf + off is the pair of   *)
(* the buffer and the offset off, and buf[off] of the code is buf[off + 1] *)
(* here.  Characters are their ASCII codes.                                *)
(***************************************************************************)
\* static const char code2base[512], line 42.
code2base == <<
    61, 61, 61, 65, 61, 67, 61, 77, 61, 71, 61, 82, 61, 83, 61, 86, 61, 84, 61, 87, 61, 89, 61, 72, 61, 75, 61, 68, 61, 66, 61, 78,
    65, 61, 65, 65, 65, 67, 65, 77, 65, 71, 65, 82, 65, 83, 65, 86, 65, 84, 65, 87, 65, 89, 65, 72, 65, 75, 65, 68, 65, 66, 65, 78,
    67, 61, 67, 65, 67, 67, 67, 77, 67, 71, 67, 82, 67, 83, 67, 86, 67, 84, 67, 87, 67, 89, 67, 72, 67, 75, 67, 68, 67, 66, 67, 78,
    77, 61, 77, 65, 77, 67, 77, 77, 77, 71, 77, 82, 77, 83, 77, 86, 77, 84, 77, 87, 77, 89, 77, 72, 77, 75, 77, 68, 77, 66, 77, 78,
    71, 61, 71, 65, 71, 67, 71, 77, 71, 71, 71, 82, 71, 83, 71, 86, 71, 84, 71, 87, 71, 89, 71, 72, 71, 75, 71, 68, 71, 66, 71, 78,
    82, 61, 82, 65, 82, 67, 82, 77, 82, 71, 82, 82, 82, 83, 82, 86, 82, 84, 82, 87, 82, 89, 82, 72, 82, 75, 82, 68, 82, 66, 82, 78,
    83, 61, 83, 65, 83, 67, 83, 77, 83, 71, 83, 82, 83, 83, 83, 86, 83, 84, 83, 87, 83, 89, 83, 72, 83, 75, 83, 68, 83, 66, 83, 78,
    86, 61, 86, 65, 86, 67, 86, 77, 86, 71, 86, 82, 86, 83, 86, 86, 86, 84, 86, 87, 86, 89, 86, 72, 86, 75, 86, 68, 86, 66, 86, 78,
    84, 61, 84, 65, 84, 67, 84, 77, 84, 71, 84, 82, 84, 83, 84, 86, 84, 84, 84, 87, 84, 89, 84, 72, 84, 75, 84, 68, 84, 66, 84, 78,
    87, 61, 87, 65, 87, 67, 87, 77, 87, 71, 87, 82, 87, 83, 87, 86, 87, 84, 87, 87, 87, 89, 87, 72, 87, 75, 87, 68, 87, 66, 87, 78,
    89, 61, 89, 65, 89, 67, 89, 77, 89, 71, 89, 82, 89, 83, 89, 86, 89, 84, 89, 87, 89, 89, 89, 72, 89, 75, 89, 68, 89, 66, 89, 78,
    72, 61, 72, 65, 72, 67, 72, 77, 72, 71, 72, 82, 72, 83, 72, 86, 72, 84, 72, 87, 72, 89, 72, 72, 72, 75, 72, 68, 72, 66, 72, 78,
    75, 61, 75, 65, 75, 67, 75, 77, 75, 71, 75, 82, 75, 83, 75, 86, 75, 84, 75, 87, 75, 89, 75, 72, 75, 75, 75, 68, 75, 66, 75, 78,
    68, 61, 68, 65, 68, 67, 68, 77, 68, 71, 68, 82, 68, 83, 68, 86, 68, 84, 68, 87, 68, 89, 68, 72, 68, 75, 68, 68, 68, 66, 68, 78,
    66, 61, 66, 65, 66, 67, 66, 77, 66, 71, 66, 82, 66, 83, 66, 86, 66, 84, 66, 87, 66, 89, 66, 72, 66, 75, 66, 68, 66, 66, 66, 78,
    78, 61, 78, 65, 78, 67, 78, 77, 78, 71, 78, 82, 78, 83, 78, 86, 78, 84, 78, 87, 78, 89, 78, 72, 78, 75, 78, 68, 78, 66, 78, 78 >>

\* "=ACMGRSVTWYHKDBN", lines 59 and 78, with the literal's terminating NUL.
nuc_lookup == <<61, 65, 67, 77, 71, 82, 83, 86, 84, 87, 89, 72, 75, 68, 66, 78, 0>>

\* memcpy(dest + off, bytes, Len(bytes)) and the vector store: a write past
\* the end of dest shows as a dest that grew.
StoreBytes(dest, off, bytes) ==
    [i \in 1..(IF off + Len(bytes) > Len(dest) THEN off + Len(bytes) ELSE Len(dest)) |->
        IF i > off /\ i <= off + Len(bytes) THEN bytes[i - off] ELSE dest[i]]

\* The loop of lines 61-63, from index i on.
RECURSIVE DefaultPairLoop(_, _, _, _, _, _)
DefaultPairLoop(dest, d0, encoded_sequence, e0, length_2, i) ==
    IF i < length_2
    THEN LET at == encoded_sequence[e0 + i + 1] * 2
         IN  DefaultPairLoop(
                 StoreBytes(dest, d0 + i * 2, <<code2base[at + 1], code2base[at + 2]>>),
                 d0, encoded_sequence, e0, length_2, i + 1)
    ELSE dest

\* decode_bam_sequence_default(dest + d0, encoded_sequence + e0, length):
\* dest afterwards.
decode_bam_sequence_default(dest, d0, encoded_sequence, e0, length) ==
    LET length_2 == length \div 2
        pairs == DefaultPairLoop(dest, d0, encoded_sequence, e0, length_2, 0)
    IN  IF length % 2 = 1
        THEN LET encoded == encoded_sequence[e0 + length_2 + 1] \div 16
             IN  StoreBytes(pairs, d0 + length - 1, <<nuc_lookup[encoded + 1]>>)
        ELSE pairs

\* sizeof(__m128i)
sizeof_m128i == 16

\* An __m128i is a sequence of 16 bytes, byte 0 (the least significant) first.
VecLanes == 1..sizeof_m128i

mm_setr_epi8(e) == e
mm_set1_epi8(a) == [i \in VecLanes |-> a]
mm_lddqu_si128(buf, off) == [i \in VecLanes |-> buf[off + i]]
mm_storeu_si128(dest, off, a) == StoreBytes(dest, off, a)

\* PSHUFB that takes 0xff lanes from the source too (a lane whose selector has
\* bit 7 set must be zeroed).
mm_shuffle_epi8_nozero(a, b) == [i \in VecLanes |-> a[(b[i] % 16) + 1]]

\* PSHUFB: lane i is 0 when bit 7 of b[i] is set, else a[b[i] & 15].
mm_shuffle_epi8(a, b) ==
    [i \in VecLanes |-> IF b[i] >= 128 THEN 0 ELSE a[(b[i] % 16) + 1]]

\* PSRLQ: each 64-bit half shifted right by imm8 (< 8) bits; a byte takes its
\* high bits from the next byte of the same half.
mm_srli_epi64(a, imm8) ==
    [i \in VecLanes |->
        (a[i] \div Pow2(imm8))
        + (IF i % 8 # 0 THEN (a[i + 1] % Pow2(imm8)) * Pow2(8 - imm8) ELSE 0)]

mm_or_si128(a, b) == [i \in VecLanes |-> BitOr(a[i], b[i])]
mm_and_si128(a, b) == [i \in VecLanes |-> BitAnd(a[i], b[i])]

\* Lines 83-90.
first_upper_shuffle == mm_setr_epi8(
    <<0, 255, 1, 255, 2, 255, 3, 255, 4, 255, 5, 255, 6, 255, 7, 255>>)
first_lower_shuffle == mm_setr_epi8(
    <<255, 0, 255, 1, 255, 2, 255, 3, 255, 4, 255, 5, 255, 6, 255, 7>>)
second_upper_shuffle == mm_setr_epi8(
    <<8, 255, 9, 255, 10, 255, 11, 255, 12, 255, 13, 255, 14, 255, 15, 255>>)
second_lower_shuffle == mm_setr_epi8(
    <<255, 8, 255, 9, 255, 10, 255, 11, 255, 12, 255, 13, 255, 14, 255, 15>>)
nuc_lookup_vec == mm_lddqu_si128(nuc_lookup, 0)

\* Lines 109-114 and 117-122: sixteen decoded bytes from the eight packed
\* bytes the two shuffles select.
Ssse3Nucleotides(encoded, upper_shuffle, lower_shuffle) ==
    LET upper == mm_shuffle_epi8(encoded, upper_shuffle)
        lower == mm_shuffle_epi8(encoded, lower_shuffle)
        shifted_upper == mm_srli_epi64(upper, 4)
        merged == mm_or_si128(shifted_upper, lower)
        indexes == mm_and_si128(merged, mm_set1_epi8(15))
    IN  mm_shuffle_epi8(nuc_lookup_vec, indexes)

\* A vector end twice as far from the end of dest as line 82 puts it.
dest_vec_end_ptr_far(dest_end_ptr) == dest_end_ptr - (4 * sizeof_m128i)

\* Line 82, as an offset from dest.  For length < 32 the pointer lies before
\* dest; on a flat address space (dest is never within 32 bytes of address 0)
\* it compares below every pointer into dest, as the negative offset does.
dest_vec_end_ptr(dest_end_ptr) == dest_end_ptr - (2 * sizeof_m128i)

\* The loop of lines 106-127.  st = [dest, dest_cursor, encoded_cursor, iters].
RECURSIVE Ssse3VectorLoop(_, _, _)
Ssse3VectorLoop(st, encoded_sequence, vec_end) ==
    IF st.dest_cursor < vec_end
    THEN LET encoded == mm_lddqu_si128(encoded_sequence, st.encoded_cursor)
             first_nucleotides ==
                 Ssse3Nucleotides(encoded, first_upper_shuffle, first_lower_shuffle)
             dest1 == mm_storeu_si128(st.dest, st.dest_cursor, first_nucleotides)
             second_nucleotides ==
                 Ssse3Nucleotides(encoded, second_upper_shuffle, second_lower_shuffle)
             dest2 == mm_storeu_si128(dest1, st.dest_cursor + 16, second_nucleotides)
         IN  Ssse3VectorLoop(
                 [dest           |-> dest2,
                  dest_cursor    |-> st.dest_cursor + 2 * sizeof_m128i,
                  encoded_cursor |-> st.encoded_cursor + sizeof_m128i,
                  iters          |-> st.iters + 1],
                 encoded_sequence, vec_end)
    ELSE st

\* The state decode_bam_sequence_ssse3(dest, encoded_sequence, length) is in
\* when it leaves its loop.
Ssse3AfterLoop(dest, encoded_sequence, length) ==
    Ssse3VectorLoop([dest |-> dest, dest_cursor |-> 0, encoded_cursor |-> 0, iters |-> 0],
                    encoded_sequence, dest_vec_end_ptr(length))

\* decode_bam_sequence_ssse3(dest, encoded_sequence, length): dest afterwards.
decode_bam_sequence_ssse3(dest, encoded_sequence, length) ==
    LET st == Ssse3AfterLoop(dest, encoded_sequence, length)
    IN  decode_bam_sequence_default(st.dest, st.dest_cursor, encoded_sequence,
                                    st.encoded_cursor, length - st.dest_cursor)

(***************************************************************************)
(* The two-bit k-mer encoder (function_dispatch.h lines 170-247).          *)
(***************************************************************************)
\* static const uint8_t NUCLEOTIDE_TO_TWOBIT[128]; entry c is at index c + 1.
NUCLEOTIDE_TO_TWOBIT == <<
    4, 4, 4, 4, 4, 4, 4, 4, 4, 4, 4, 4, 4, 4, 4, 4,
    4, 4, 4, 4, 4, 4, 4, 4, 4, 4, 4, 4, 4, 4, 4, 4,
    4, 4, 4, 4, 4, 4, 4, 4, 4, 4, 4, 4, 4, 4, 4, 4,
    4, 4, 4, 4, 4, 4, 4, 4, 4, 4, 4, 4, 4, 4, 4, 4,
    4, 0, 4, 1, 4, 4, 4, 2, 4, 4, 4, 4, 4, 4, 8, 4,
    4, 4, 4, 4, 3, 4, 4, 4, 4, 4, 4, 4, 4, 4, 4, 4,
    4, 0, 4, 1, 4, 4, 4, 2, 4, 4, 4, 4, 4, 4, 8, 4,
    4, 4, 4, 4, 3, 4, 4, 4, 4, 4, 4, 4, 4, 4, 4, 4 >>

TWOBIT_UNKNOWN_CHAR == -1
TWOBIT_N_CHAR == -2

\* A table read that knows N but not n.
TwoBitRead_upper_n_only(c, past) ==
    IF c >= Len(NUCLEOTIDE_TO_TWOBIT) THEN past[c]
    ELSE IF c = 110 THEN 4
    ELSE NUCLEOTIDE_TO_TWOBIT[c + 1]

\* NUCLEOTIDE_TO_TWOBIT[c] for a uint8_t c.  The table has 128 entries and c
\* is not range-checked: for c >= 128 the read is past the end of the array
\* and yields the byte the build placed at that address.  `past` is the
\* memory behind the table, a function from the indices 128..255 that are
\* read to bytes: each index has its own byte, and reading an index twice
\* yields the same byte twice.
TwoBitRead(c, past) ==
    IF c < Len(NUCLEOTIDE_TO_TWOBIT) THEN NUCLEOTIDE_TO_TWOBIT[c + 1] ELSE past[c]

\* The masks of reverse_complement_kmer (lines 197-206).
Mask_FFFF0000FFFF0000 == Hex64(<<15,15,15,15,0,0,0,0,15,15,15,15,0,0,0,0>>)
Mask_0000FFFF0000FFFF == Hex64(<<0,0,0,0,15,15,15,15,0,0,0,0,15,15,15,15>>)
Mask_FF00FF00FF00FF00 == Hex64(<<15,15,0,0,15,15,0,0,15,15,0,0,15,15,0,0>>)
Mask_00FF00FF00FF00FF == Hex64(<<0,0,15,15,0,0,15,15,0,0,15,15,0,0,15,15>>)
Mask_F0F0F0F0F0F0F0F0 == Hex64(<<15,0,15,0,15,0,15,0,15,0,15,0,15,0,15,0>>)
Mask_0F0F0F0F0F0F0F0F == Hex64(<<0,15,0,15,0,15,0,15,0,15,0,15,0,15,0,15>>)
Mask_CCCCCCCCCCCCCCCC == Hex64(<<12,12,12,12,12,12,12,12,12,12,12,12,12,12,12,12>>)
Mask_3333333333333333 == Hex64(<<3,3,3,3,3,3,3,3,3,3,3,3,3,3,3,3>>)

\* A reversal that stops at the nibbles: the two groups of a nibble keep
\* their order.
reverse_complement_kmer_no_pair_swap(kmer, k) ==
    LET comp == Not64(kmer)
        r32  == Or64(Shl64(comp, 32), Shr64(comp, 32))
        r16  == Or64(Shr64(And64(r32, Mask_FFFF0000FFFF0000), 16),
                     Shl64(And64(r32, Mask_0000FFFF0000FFFF), 16))
        r8   == Or64(Shr64(And64(r16, Mask_FF00FF00FF00FF00), 8),
                     Shl64(And64(r16, Mask_00FF00FF00FF00FF), 8))
        r4   == Or64(Shr64(And64(r8, Mask_F0F0F0F0F0F0F0F0), 4),
                     Shl64(And64(r8, Mask_0F0F0F0F0F0F0F0F), 4))
    IN  Shr64(r4, 64 - (k * 2))

\* A reversal without the complement.
reverse_complement_kmer_no_complement(kmer, k) ==
    LET comp == kmer
        r32  == Or64(Shl64(comp, 32), Shr64(comp, 32))
        r16  == Or64(Shr64(And64(r32, Mask_FFFF0000FFFF0000), 16),
                     Shl64(And64(r32, Mask_0000FFFF0000FFFF), 16))
        r8   == Or64(Shr64(And64(r16, Mask_FF00FF00FF00FF00), 8),
                     Shl64(And64(r16, Mask_00FF00FF00FF00FF), 8))
        r4   == Or64(Shr64(And64(r8, Mask_F0F0F0F0F0F0F0F0), 4),
                     Shl64(And64(r8, Mask_0F0F0F0F0F0F0F0F), 4))
        r2   == Or64(Shr64(And64(r4, Mask_CCCCCCCCCCCCCCCC), 2),
                     Shl64(And64(r4, Mask_3333333333333333), 2))
    IN  Shr64(r2, 64 - (k * 2))

\* reverse_complement_kmer(kmer, k), 1 <= k <= 32.
reverse_complement_kmer(kmer, k) ==
    LET comp == Not64(kmer)
        r32  == Or64(Shl64(comp, 32), Shr64(comp, 32))
        r16  == Or64(Shr64(And64(r32, Mask_FFFF0000FFFF0000), 16),
                     Shl64(And64(r32, Mask_0000FFFF0000FFFF), 16))
        r8   == Or64(Shr64(And64(r16, Mask_FF00FF00FF00FF00), 8),
                     Shl64(And64(r16, Mask_00FF00FF00FF00FF), 8))
        r4   == Or64(Shr64(And64(r8, Mask_F0F0F0F0F0F0F0F0), 4),
                     Shl64(And64(r8, Mask_0F0F0F0F0F0F0F0F), 4))
        r2   == Or64(Shr64(And64(r4, Mask_CCCCCCCCCCCCCCCC), 2),
                     Shl64(And64(r4, Mask_3333333333333333), 2))
    IN  Shr64(r2, 64 - (k * 2))

\* The loop of lines 217-226: four bases per iteration while i < vector_end.
\* st = [i, kmer, all_nucs]; sequence[i] of the code is sequence[i + 1] here.
RECURSIVE KmerChunkLoop(_, _, _, _)
KmerChunkLoop(sequence, vector_end, past, st) ==
    IF st.i < vector_end
    THEN LET nuc0 == TwoBitRead(sequence[st.i + 1], past)
             nuc1 == TwoBitRead(sequence[st.i + 2], past)
             nuc2 == TwoBitRead(sequence[st.i + 3], past)
             nuc3 == TwoBitRead(sequence[st.i + 4], past)
             kchunk == BitOr(BitOr(nuc0 * 64, nuc1 * 16), BitOr(nuc2 * 4, nuc3))
         IN  KmerChunkLoop(sequence, vector_end, past,
                 [i        |-> st.i + 4,
                  kmer     |-> Or64(Shl64(st.kmer, 8), U64(kchunk)),
                  all_nucs |-> BitOr(st.all_nucs,
                                     BitOr(BitOr(nuc0, nuc1), BitOr(nuc2, nuc3)))])
    ELSE st

\* The loop of lines 227-232: one base per iteration while i < k.
RECURSIVE KmerBaseLoop(_, _, _, _)
KmerBaseLoop(sequence, k, past, st) ==
    IF st.i < k
    THEN LET nuc == TwoBitRead(sequence[st.i + 1], past)
         IN  KmerBaseLoop(sequence, k, past,
                 [i        |-> st.i + 1,
                  kmer     |-> Or64(Shl64(st.kmer, 2), U64(nuc)),
                  all_nucs |-> BitOr(st.all_nucs, nuc)])
    ELSE st

\* An encoder that returns the larger of the k-mer and its reverse complement.
sequence_to_canonical_kmer_larger(sequence, k, past) ==
    LET vector_end == k - 4
        s0 == [i |-> 0, kmer |-> U64(0), all_nucs |-> 0]
        s1 == KmerChunkLoop(sequence, vector_end, past, s0)
        s2 == KmerBaseLoop(sequence, k, past, s1)
        kmer == s2.kmer
        all_nucs == s2.all_nucs
        revcomp_kmer == reverse_complement_kmer(kmer, k)
    IN  IF all_nucs > 3 /\ BitAnd(all_nucs, 4) # 0 THEN I64(TWOBIT_UNKNOWN_CHAR)
        ELSE IF all_nucs > 3 /\ BitAnd(all_nucs, 8) # 0 THEN I64(TWOBIT_N_CHAR)
        ELSE IF Gt64(kmer, revcomp_kmer) THEN kmer
        ELSE revcomp_kmer

\* sequence_to_canonical_kmer(sequence, k): the int64_t returned.
sequence_to_canonical_kmer(sequence, k, past) ==
    LET vector_end == k - 4
        s0 == [i |-> 0, kmer |-> U64(0), all_nucs |-> 0]
        s1 == KmerChunkLoop(sequence, vector_end, past, s0)
        s2 == KmerBaseLoop(sequence, k, past, s1)
        kmer == s2.kmer
        all_nucs == s2.all_nucs
        revcomp_kmer == reverse_complement_kmer(kmer, k)
    IN  IF all_nucs > 3 /\ BitAnd(all_nucs, 4) # 0 THEN I64(TWOBIT_UNKNOWN_CHAR)
        ELSE IF all_nucs > 3 /\ BitAnd(all_nucs, 8) # 0 THEN I64(TWOBIT_N_CHAR)
        ELSE IF Gt64(revcomp_kmer, kmer) THEN kmer
        ELSE revcomp_kmer

(***************************************************************************)
(* The dispatcher (function_dispatch.h lines 131-143).                     *)
(***************************************************************************)
Implementations == {"ssse3", "default"}

\* A dispatcher whose else branch leaves the pointer at the dispatcher.
PointerAfterProbe_unbound(cpu) == IF cpu THEN "ssse3" ELSE "dispatch"

\* Lines 134-139: the value decode_bam_sequence_dispatch stores.
PointerAfterProbe(cpu) == IF cpu THEN "ssse3" ELSE "default"

(***************************************************************************)
(* Inputs.                                                                 *)
(***************************************************************************)
\* The longest decoded length tried.
MaxLen == 66
\* Concurrent callers of decode_bam_sequence, and calls each of them makes.
NThreads == 3
MaxCalls == 2
\* k is at most 32: a uint64_t holds 32 two-bit bases (line 209 shifts by
\* 64 - 2k).
MaxK == 32

\* ASCII codes.
Ord_At == 64
Ord_A == 65
Ord_C == 67
Ord_G == 71
Ord_N == 78
Ord_T == 84
Ord_a == 97

ToLower(c) == c + (Ord_a - Ord_A)
ToUpper(c) == IF c >= Ord_a THEN c - (Ord_a - Ord_A) ELSE c

UpperBases == <<Ord_A, Ord_C, Ord_G, Ord_T>>
Bases == {Ord_A, Ord_C, Ord_G, Ord_T} \cup {ToLower(c) : c \in {Ord_A, Ord_C, Ord_G, Ord_T}}
\* N and n.
NBytes == {Ord_N, ToLower(Ord_N)}
\* The IUPAC ambiguity codes R Y S W K M B D H V, either case.
IupacUpper == {82, 89, 83, 87, 75, 77, 66, 68, 72, 86}
IupacBytes == IupacUpper \cup {ToLower(c) : c \in IupacUpper}

\* A packed buffer for len bases: consecutive bytes differ in both nibbles, and
\* over the 256 seeds every byte value stands at every index.
EncodedBuffer(len, seed) == [i \in 1..((len + 1) \div 2) |-> (seed + (i - 1) * 17) % 256]

\* A dest of len bytes nothing has been written to (0 is no decoded character).
FreshDest(len) == [i \in 1..len |-> 0]

\* A window of kk bases: the first kk / 2 are f1 and the rest f2, the base at
\* m (if m > 0) is moved by d; lower is 0 for upper case, 1 for lower case,
\* 2 for alternating case.
ValidWindow(kk, f1, f2, m, d, lower) ==
    [i \in 1..kk |->
        LET b0 == IF 2 * i <= kk THEN f1 ELSE f2
            b  == IF i = m THEN (b0 + d) % 4 ELSE b0
        IN  IF lower = 1 \/ (lower = 2 /\ i % 2 = 0)
            THEN ToLower(UpperBases[b + 1]) ELSE UpperBases[b + 1]]

\* "ACGT".
NamedWindows == {<<Ord_A, Ord_C, Ord_G, Ord_T>>}

ValidWindows(kk) ==
    { ValidWindow(kk, f1, f2, m, d, 0) : f1 \in 0..3, f2 \in 0..3, m \in 1..kk, d \in {1, 3} }
    \cup { ValidWindow(kk, f1, f2, 0, 0, lower) : f1 \in 0..3, f2 \in 0..3, lower \in 0..2 }
    \cup { w \in NamedWindows : Len(w) = kk }

\* The reverse complement of a window over A/C/G/T (either case): the bases
\* in reverse order, A<->T and C<->G.
ComplementBase(c) ==
    LET u == ToUpper(c)
        v == IF u = Ord_A THEN Ord_T ELSE IF u = Ord_T THEN Ord_A
             ELSE IF u = Ord_C THEN Ord_G ELSE Ord_C
    IN  IF c = u THEN v ELSE ToLower(v)

ReverseComplementWindow(w) == [i \in 1..Len(w) |-> ComplementBase(w[Len(w) + 1 - i])]

\* ACGTACGT... of kk bases.
ErrBase(kk) == [i \in 1..kk |-> UpperBases[((i - 1) % 4) + 1]]

\* The byte values of a uint8_t, and those NUCLEOTIDE_TO_TWOBIT has no entry
\* for.
ByteValues == 0..255
PastIndices == Len(NUCLEOTIDE_TO_TWOBIT)..255

\* The memories a call on window w can find behind the table: any byte at
\* each index the window makes it read there.
PastTables(w) == [{w[i] : i \in 1..Len(w)} \cap PastIndices -> ByteValues]

SweepBytes == {Ord_At, Ord_N, ToLower(Ord_N), 82}
PairLengths == {2, 3, 4, 5, 8, 9, 12, MaxK}
BytePairs == {<<Ord_At, Ord_N>>, <<82, ToLower(Ord_N)>>, <<Ord_N, ToLower(Ord_N)>>}

\* Windows that read behind the table: the lengths, the bytes put at every
\* position, the pairs of bytes put at every two positions, and the pair of
\* bytes behind the table put, in either order, at the first two positions.
PastLengths == {1, 5, 9}
PastSweepBytes == {128, 130, 255}
PastPairLengths == {2, 5}
PastBytePairs == {<<128, Ord_N>>}
PastTwoIndices == <<128, 130>>

(***************************************************************************)
(* The states in which a component is not running.                         *)
(***************************************************************************)
NoRet == <<>>

Threads == 1..NThreads

DecodeOff ==
    /\ encoded_buf = <<>>
    /\ seq_len = 0
    /\ dest_default = <<>>
    /\ dest_ssse3 = <<>>
    /\ vec_iters = 0
    /\ tail_len = 0
    /\ decode_pc = "off"

KmerOff ==
    /\ window = <<>>
    /\ klen = 0
    /\ past_bytes = <<>>
    /\ kmer_pc = "off"
    /\ kmer_ret = NoRet
    /\ kmer_ret_rc = NoRet

DispatchOff ==
    /\ decode_bam_sequence = "dispatch"
    /\ cpu_ssse3 = FALSE
    /\ thr_pc = [t \in Threads |-> "off"]
    /\ thr_fp = [t \in Threads |-> "none"]
    /\ thr_ran = [t \in Threads |-> "none"]
    /\ thr_returned = [t \in Threads |-> 0]
    /\ selector_writes = 0
    /\ bound_values = {}

(***************************************************************************)
(* The two decoders on the same input.                                     *)
(***************************************************************************)
InitDecode ==
    /\ seq_len \in 0..MaxLen
    /\ \E seed \in 0..255 : encoded_buf = EncodedBuffer(seq_len, seed)
    /\ dest_default = FreshDest(seq_len)
    /\ dest_ssse3 = FreshDest(seq_len)
    /\ vec_iters = 0
    /\ tail_len = 0
    /\ decode_pc = "input"
    /\ KmerOff
    /\ DispatchOff

DecodeDefault ==
    /\ decode_pc = "input"
    /\ dest_default' = decode_bam_sequence_default(dest_default, 0, encoded_buf, 0, seq_len)
    /\ decode_pc' = "default_done"
    /\ UNCHANGED <<encoded_buf, seq_len, dest_ssse3, vec_iters, tail_len>>
    /\ UNCHANGED <<kmer_vars, dispatch_vars>>

DecodeSsse3 ==
    /\ decode_pc = "default_done"
    /\ dest_ssse3' = decode_bam_sequence_ssse3(dest_ssse3, encoded_buf, seq_len)
    /\ LET st == Ssse3AfterLoop(dest_ssse3, encoded_buf, seq_len)
       IN  /\ vec_iters' = st.iters
           /\ tail_len' = seq_len - st.dest_cursor
    /\ decode_pc' = "done"
    /\ UNCHANGED <<encoded_buf, seq_len, dest_default>>
    /\ UNCHANGED <<kmer_vars, dispatch_vars>>

NextDecode == DecodeDefault \/ DecodeSsse3

SpecDecode == InitDecode /\ [][NextDecode]_vars

(***************************************************************************)
(* sequence_to_canonical_kmer on windows over A/C/G/T and on their reverse *)
(* complements.                                                            *)
(***************************************************************************)
InitKmer ==
    /\ klen \in 1..MaxK
    /\ window \in ValidWindows(klen)
    /\ past_bytes = <<>>
    /\ kmer_pc = "input"
    /\ kmer_ret = NoRet
    /\ kmer_ret_rc = NoRet
    /\ DecodeOff
    /\ DispatchOff

CallCanonicalKmer ==
    /\ kmer_pc = "input"
    /\ kmer_ret' = sequence_to_canonical_kmer(window, klen, past_bytes)
    /\ kmer_pc' = "called"
    /\ UNCHANGED <<window, klen, past_bytes, kmer_ret_rc>>
    /\ UNCHANGED <<decode_vars, dispatch_vars>>

CallCanonicalKmerRevComp ==
    /\ kmer_pc = "called"
    /\ \A i \in 1..klen : window[i] \in Bases
    /\ kmer_ret_rc' =
           sequence_to_canonical_kmer(ReverseComplementWindow(window), klen, past_bytes)
    /\ kmer_pc' = "rc_called"
    /\ UNCHANGED <<window, klen, past_bytes, kmer_ret>>
    /\ UNCHANGED <<decode_vars, dispatch_vars>>

NextKmer == CallCanonicalKmer \/ CallCanonicalKmerRevComp

SpecKmer == InitKmer /\ [][NextKmer]_vars

(***************************************************************************)
(* sequence_to_canonical_kmer on windows with bytes other than A/C/G/T.    *)
(***************************************************************************)
InitKmerErr ==
    /\ \/ \E kk \in 1..MaxK : \E p \in 1..kk : \E b \in SweepBytes :
            /\ klen = kk
            /\ window = [ErrBase(kk) EXCEPT ![p] = b]
       \/ \E kk \in {1, 5} : \E p \in 1..kk : \E b \in ByteValues \ PastIndices :
            /\ klen = kk
            /\ window = [ErrBase(kk) EXCEPT ![p] = b]
       \/ \E kk \in {1, 5, 8} : \E p \in 1..kk : \E b \in IupacBytes :
            /\ klen = kk
            /\ window = [ErrBase(kk) EXCEPT ![p] = b]
       \/ \E kk \in PairLengths : \E p1 \in 1..kk : \E p2 \in (1..kk) \ {p1} :
          \E bb \in BytePairs :
            /\ klen = kk
            /\ window = [ErrBase(kk) EXCEPT ![p1] = bb[1], ![p2] = bb[2]]
       \/ \E b \in PastIndices :
            /\ klen = 1
            /\ window = <<b>>
       \/ \E kk \in PastLengths : \E p \in 1..kk : \E b \in PastSweepBytes :
            /\ klen = kk
            /\ window = [ErrBase(kk) EXCEPT ![p] = b]
       \/ \E kk \in PastPairLengths : \E p1 \in 1..kk : \E p2 \in (1..kk) \ {p1} :
          \E bb \in PastBytePairs :
            /\ klen = kk
            /\ window = [ErrBase(kk) EXCEPT ![p1] = bb[1], ![p2] = bb[2]]
       \/ \E kk \in PastPairLengths : \E p1 \in 1..2 :
            /\ klen = kk
            /\ window = [ErrBase(kk) EXCEPT ![p1] = PastTwoIndices[1],
                                              ![3 - p1] = PastTwoIndices[2]]
    /\ past_bytes \in PastTables(window)
    /\ kmer_pc = "input"
    /\ kmer_ret = NoRet
    /\ kmer_ret_rc = NoRet
    /\ DecodeOff
    /\ DispatchOff

NextKmerErr == CallCanonicalKmer

SpecKmerErr == InitKmerErr /\ [][NextKmerErr]_vars

(***************************************************************************)
(* Threads calling through the pointer decode_bam_sequence.  A call loads  *)
(* the pointer and jumps to it.  Loads and stores of the pointer are       *)
(* single aligned moves: each load yields a value some store wrote.        *)
(***************************************************************************)
InitDispatch ==
    /\ decode_bam_sequence = "dispatch"
    /\ cpu_ssse3 \in BOOLEAN
    /\ thr_pc = [t \in Threads |-> "idle"]
    /\ thr_fp = [t \in Threads |-> "none"]
    /\ thr_ran = [t \in Threads |-> "none"]
    /\ thr_returned = [t \in Threads |-> 0]
    /\ selector_writes = 0
    /\ bound_values = {}
    /\ DecodeOff
    /\ KmerOff

\* decode_bam_sequence(dest, encoded_sequence, length) at a call site: the
\* pointer is loaded.
LoadPointer(t) ==
    /\ thr_pc[t] = "idle"
    /\ thr_returned[t] < MaxCalls
    /\ thr_fp' = [thr_fp EXCEPT ![t] = decode_bam_sequence]
    /\ thr_pc' = [thr_pc EXCEPT ![t] = "loaded"]
    /\ UNCHANGED <<decode_bam_sequence, cpu_ssse3, thr_ran, thr_returned,
                   selector_writes, bound_values>>
    /\ UNCHANGED <<decode_vars, kmer_vars>>

\* The loaded pointer is an implementation: it runs and returns.
CallImplementation(t) ==
    /\ thr_pc[t] = "loaded"
    /\ thr_fp[t] \in Implementations
    /\ thr_ran' = [thr_ran EXCEPT ![t] = thr_fp[t]]
    /\ thr_returned' = [thr_returned EXCEPT ![t] = @ + 1]
    /\ thr_pc' = [thr_pc EXCEPT ![t] = "idle"]
    /\ UNCHANGED <<decode_bam_sequence, cpu_ssse3, thr_fp, selector_writes, bound_values>>
    /\ UNCHANGED <<decode_vars, kmer_vars>>

\* The loaded pointer is decode_bam_sequence_dispatch: lines 134-139 probe the
\* CPU and store the pointer.
DispatchBind(t) ==
    /\ thr_pc[t] = "loaded"
    /\ thr_fp[t] = "dispatch"
    /\ decode_bam_sequence' = PointerAfterProbe(cpu_ssse3)
    /\ thr_fp' = [thr_fp EXCEPT ![t] = PointerAfterProbe(cpu_ssse3)]
    /\ selector_writes' = selector_writes + 1
    /\ bound_values' = bound_values \cup {PointerAfterProbe(cpu_ssse3)}
    /\ thr_pc' = [thr_pc EXCEPT ![t] = "bound"]
    /\ UNCHANGED <<cpu_ssse3, thr_ran, thr_returned>>
    /\ UNCHANGED <<decode_vars, kmer_vars>>

\* Line 140: the call through the pointer, which the build either loads again
\* or keeps from the store just made.  A pointer still at the dispatcher
\* enters the dispatcher again.
DispatchCall(t) ==
    /\ thr_pc[t] = "bound"
    /\ \E f \in {decode_bam_sequence, thr_fp[t]} :
         IF f \in Implementations
         THEN /\ thr_ran' = [thr_ran EXCEPT ![t] = f]
              /\ thr_returned' = [thr_returned EXCEPT ![t] = @ + 1]
              /\ thr_pc' = [thr_pc EXCEPT ![t] = "idle"]
              /\ UNCHANGED thr_fp
         ELSE /\ thr_fp' = [thr_fp EXCEPT ![t] = f]
              /\ thr_pc' = [thr_pc EXCEPT ![t] = "loaded"]
              /\ UNCHANGED <<thr_ran, thr_returned>>
    /\ UNCHANGED <<decode_bam_sequence, cpu_ssse3, selector_writes, bound_values>>
    /\ UNCHANGED <<decode_vars, kmer_vars>>

NextDispatch ==
    \E t \in Threads :
        LoadPointer(t) \/ CallImplementation(t) \/ DispatchBind(t) \/ DispatchCall(t)

SpecDispatch == InitDispatch /\ [][NextDispatch]_vars

(***************************************************************************)
(* The whole: one of the components runs.                                  *)
(***************************************************************************)
Init == InitDecode \/ InitKmer \/ InitKmerErr \/ InitDispatch
Next == NextDecode \/ NextKmer \/ NextDispatch
Spec == Init /\ [][Next]_vars

(***************************************************************************)
(* Properties.                                                             *)
(***************************************************************************)
KmerCalled == kmer_pc \in {"called", "rc_called"}
ErrorCodes == {I64(TWOBIT_UNKNOWN_CHAR), I64(TWOBIT_N_CHAR)}

\* C1: for every packed buffer and every decoded length, once both decoders
\* have run on it, decode_bam_sequence_ssse3 and decode_bam_sequence_default
\* have written the same bytes to dest[0..n-1] (and nothing past it).
C1_DecodersAgree ==
    decode_pc = "done" =>
        /\ Len(dest_default) = seq_len
        /\ dest_ssse3 = dest_default

\* Both decoders ran on an odd length that takes two rounds of the vector
\* loop and a one-base tail.
C1_Witness ==
    /\ decode_pc = "done"
    /\ seq_len = 65
    /\ vec_iters = 2
    /\ dest_ssse3 = dest_default
    /\ \A i \in 1..seq_len : dest_ssse3[i] # 0

\* C10 as claimed: the tail decode_bam_sequence_ssse3 hands to
\* decode_bam_sequence_default is always fewer than 32 bases.
C10_TailBelow32 == decode_pc = "done" => tail_len < 32

\* C10 as amended: the vector loop runs another 32-base round whenever more
\* than 32 undecoded bases remain, so the tail handed to
\* decode_bam_sequence_default is at most 32 bases (exactly 32 when the
\* length is a positive multiple of 32).
C10_TailAtMost32 ==
    decode_pc = "done" =>
        /\ tail_len <= 32
        /\ vec_iters * 32 + tail_len = seq_len
        /\ (seq_len > 32 => vec_iters >= 1)
        /\ (seq_len > 0 => tail_len >= 1)

\* The SSSE3 decoder ran on 64 bases: one round of the loop, a tail of 32.
C10_Witness ==
    /\ decode_pc = "done"
    /\ seq_len = 64
    /\ vec_iters = 1
    /\ tail_len = 32

\* C2: for every window of k bases over A/C/G/T, sequence_to_canonical_kmer
\* returns the same value for the window and for its reverse complement.
C2_RevCompSymmetric == kmer_pc = "rc_called" => kmer_ret = kmer_ret_rc

\* A 32-base window that differs from its reverse complement, both encoded
\* to the same k-mer.
C2_Witness ==
    /\ kmer_pc = "rc_called"
    /\ klen = MaxK
    /\ window # ReverseComplementWindow(window)
    /\ kmer_ret = kmer_ret_rc
    /\ kmer_ret \notin ErrorCodes

\* The two-bit code of a base: A=0, C=1, G=2, T=3, either case.
NaiveCode(c) ==
    LET u == ToUpper(c)
    IN  IF u = Ord_A THEN 0 ELSE IF u = Ord_C THEN 1 ELSE IF u = Ord_G THEN 2 ELSE 3

NaiveCodes(w) == [i \in 1..Len(w) |-> NaiveCode(w[i])]

\* The codes of the reversed, complemented window, one group at a time.
NaiveRevComp(d) == [i \in 1..Len(d) |-> 3 - d[Len(d) + 1 - i]]

\* a < b for two code sequences of one length, packed first base most
\* significant.
NaiveLess(a, b) ==
    \E i \in 1..Len(a) : a[i] < b[i] /\ \A h \in 1..(i - 1) : a[h] = b[h]

\* The 64-bit integer packing the codes d, first base most significant, the
\* last base in bits 1..0.
NaivePack(d) ==
    [j \in WordBits |->
        LET bit == 64 - j
            group == bit \div 2
        IN  IF group < Len(d) THEN (d[Len(d) - group] \div Pow2(bit % 2)) % 2 ELSE 0]

NaiveCanonical(w) ==
    LET f == NaiveCodes(w)
        r == NaiveRevComp(f)
    IN  NaivePack(IF NaiveLess(r, f) THEN r ELSE f)

\* C3: for every k in 1..32 and every window of k bases over A/C/G/T in
\* either case, sequence_to_canonical_kmer returns the smaller, as unsigned
\* integers, of the naive packing of the window and the naive packing of its
\* reverse complement; "ACGT" with k = 4 gives 0x1B = 27.
C3_CanonicalIsNaiveMin ==
    KmerCalled =>
        /\ kmer_ret = NaiveCanonical(window)
        /\ (window = <<Ord_A, Ord_C, Ord_G, Ord_T>> => kmer_ret = U64(27))

\* "ACGT" was encoded, to 0x1B.
C3_Witness ==
    /\ KmerCalled
    /\ klen = 4
    /\ window = <<Ord_A, Ord_C, Ord_G, Ord_T>>
    /\ kmer_ret = U64(27)

\* C9: for every window of k bases over A/C/G/T the int64_t returned differs
\* from TWOBIT_UNKNOWN_CHAR (-1) and from TWOBIT_N_CHAR (-2).
C9_ValueIsNoErrorCode ==
    (KmerCalled /\ \A i \in 1..klen : window[i] \in Bases) => kmer_ret \notin ErrorCodes

\* A 32-base window whose canonical k-mer has bit 63 set: negative as an
\* int64_t, and still neither error code.
C9_Witness ==
    /\ KmerCalled
    /\ klen = MaxK
    /\ \A i \in 1..klen : window[i] \in Bases
    /\ kmer_ret[1] = 1
    /\ kmer_ret \notin ErrorCodes

\* C4 as claimed: whenever one of the first k bytes of the window is not one
\* of A/C/G/T/a/c/g/t, whatever byte value 0..255 it is,
\* sequence_to_canonical_kmer returns TWOBIT_UNKNOWN_CHAR or TWOBIT_N_CHAR.
C4_InvalidByteIsError ==
    (kmer_pc = "called" /\ \E i \in 1..klen : window[i] \notin Bases)
        => kmer_ret \in ErrorCodes

\* What holds of C4: the same for windows all of whose bytes are below 128,
\* the bytes NUCLEOTIDE_TO_TWOBIT has an entry for.
C4_InTableInvalidByteIsError ==
    (/\ kmer_pc = "called"
     /\ \A i \in 1..klen : window[i] < Len(NUCLEOTIDE_TO_TWOBIT)
     /\ \E i \in 1..klen : window[i] \notin Bases)
        => kmer_ret \in ErrorCodes

\* C5 as claimed: a window whose only bytes outside A/C/G/T are N or IUPAC
\* ambiguity codes (either case) makes sequence_to_canonical_kmer return
\* TWOBIT_N_CHAR.
C5_AmbiguityCodeIsN ==
    (/\ kmer_pc = "called"
     /\ \A i \in 1..klen : window[i] \in Bases \cup NBytes \cup IupacBytes
     /\ \E i \in 1..klen : window[i] \notin Bases)
        => kmer_ret = I64(TWOBIT_N_CHAR)

\* C5 as amended: a window whose only bytes outside A/C/G/T are N or n makes
\* sequence_to_canonical_kmer return TWOBIT_N_CHAR; a window with any other
\* IUPAC ambiguity code (and bytes below 128 only) returns
\* TWOBIT_UNKNOWN_CHAR.
C5_OnlyNIsN ==
    /\ (/\ kmer_pc = "called"
        /\ \A i \in 1..klen : window[i] \in Bases \cup NBytes
        /\ \E i \in 1..klen : window[i] \in NBytes)
           => kmer_ret = I64(TWOBIT_N_CHAR)
    /\ (/\ kmer_pc = "called"
        /\ \A i \in 1..klen : window[i] < Len(NUCLEOTIDE_TO_TWOBIT)
        /\ \E i \in 1..klen : window[i] \in IupacBytes)
           => kmer_ret = I64(TWOBIT_UNKNOWN_CHAR)

\* A window with an N and an n, one of them read by the four-base loop, was
\* answered with TWOBIT_N_CHAR.
C5_Witness ==
    /\ kmer_pc = "called"
    /\ klen = 9
    /\ \A i \in 1..klen : window[i] \in Bases \cup NBytes
    /\ window[2] = Ord_N
    /\ window[9] = ToLower(Ord_N)
    /\ kmer_ret = I64(TWOBIT_N_CHAR)

\* C6 as claimed: a window with a byte that is no nucleotide code and with an
\* N makes sequence_to_canonical_kmer return TWOBIT_UNKNOWN_CHAR, wherever
\* the two bytes stand.
C6_UnknownBeatsN ==
    (/\ kmer_pc = "called"
     /\ \E i \in 1..klen : window[i] \notin Bases \cup NBytes \cup IupacBytes
     /\ \E i \in 1..klen : window[i] \in NBytes)
        => kmer_ret = I64(TWOBIT_UNKNOWN_CHAR)

\* What holds of C6: the same when the byte that is no nucleotide code is
\* below 128, whatever the other bytes of the window are.
C6_InTableUnknownBeatsN ==
    (/\ kmer_pc = "called"
     /\ \E i \in 1..klen :
            /\ window[i] \notin Bases \cup NBytes
            /\ window[i] < Len(NUCLEOTIDE_TO_TWOBIT)
     /\ \E i \in 1..klen : window[i] \in NBytes)
        => kmer_ret = I64(TWOBIT_UNKNOWN_CHAR)

\* C7 as claimed: over the whole execution the pointer decode_bam_sequence is
\* stored at most once.
C7_WrittenAtMostOnce == selector_writes <= 1

\* What holds of C7: the pointer is stored at most once by each thread, each
\* time by a thread that loaded it while it still held the dispatcher.
C7_WrittenAtMostOncePerThread == selector_writes <= NThreads

C8_State ==
    /\ \E impl \in Implementations : bound_values \subseteq {impl}
    /\ \A t \in Threads :
          thr_returned[t] > 0 =>
              /\ selector_writes >= 1
              /\ decode_bam_sequence \in Implementations
              /\ thr_ran[t] = decode_bam_sequence

C8_Step ==
    decode_bam_sequence \in Implementations => decode_bam_sequence' = decode_bam_sequence

\* C8: once decode_bam_sequence holds an implementation it never holds
\* another value (it never returns to the dispatcher), all threads that store
\* it store the same implementation, and every call that has returned was
\* preceded by a store of the pointer and ran the implementation it holds.
C8_BoundOnceForAll == []C8_State /\ [][C8_Step]_vars

\* Two threads made their first call together: both stored the pointer, one
\* call has returned, and a third thread still holds the dispatcher it loaded
\* before the pointer was bound.
C8_Witness ==
    /\ selector_writes >= 2
    /\ decode_bam_sequence \in Implementations
    /\ \E t \in Threads : thr_returned[t] >= 1
    /\ \E t \in Threads : thr_pc[t] = "loaded" /\ thr_fp[t] = "dispatch"
====
